---- MODULE Spec2Model ----
(***************************************************************************)
(* A model of the UnBind contract-analysis backend:                        *)
(*   - chunk_text and its helpers (services/pdf_processing.py),            *)
(*   - analyze_contract, the extraction / summary / synthesis pipeline     *)
(*     (services/analysis_service.py, services/groq_service.py),           *)
(*   - simulate_impact and _vector_retrieve_relevant_chunks.               *)
(* Strings are sequences of one-character strings.  Python indices are     *)
(* 0-based and are kept 0-based in the helpers that mirror slicing.        *)
(***************************************************************************)
EXTENDS Integers, Sequences, FiniteSets, TLC

VARIABLES
    \* ---- chunk_text(text, chunk_size, overlap) ----
    text,        \* the argument of chunk_text
    cpc,         \* position in chunk_text: "idle","call","parsed","loop","returned"
    sections,    \* the list _parse_with_regex returned (contents only)
    secIdx,      \* number of sections the for loop has consumed
    chunks,      \* the list being built / returned
    current,     \* the accumulator of _sections_to_chunks
    chunkSrc,    \* history: for each chunk, <<section, fragment>> it ends with
    curSrc,      \* history: <<section, fragment>> the accumulator ends with
    \* ---- analyze_contract(document_text, role) ----
    pc,          \* "start","gather","summaries","synthesis","done","failed"
    numChunks,   \* len(chunks) inside analyze_contract
    taskPc,      \* per _analyze_chunk task: "created","awaiting","done","raised"
    extractResp, \* per task: the HTTP response its chat_complete call received
    chunkResult, \* per task: the value the task returned
    completed,   \* history: task indices in completion order
    allClauses,  \* all_clauses
    sumIdx,      \* loop index of _create_chunk_summaries (0-based, chunks done)
    sumPc,       \* "idle","awaiting"
    sumCtx,      \* history: the clause slice put in each summary prompt
    summaries,   \* the list _create_chunk_summaries builds
    synthPc,     \* "idle","awaiting","returned"
    finalReport, \* what _synthesize_report returned
    calls,       \* number of chat_complete calls issued, by kind and chunk
    sumResp,     \* history: the HTTP responses the summary calls received
    synthResp,   \* history: the HTTP responses the synthesis call received
    result,      \* what analyze_contract returned or raised
    on_progress, \* the on_progress argument
    progressLog, \* history: the messages handed to on_progress
    \* ---- simulate_impact(document_text, scenario) ----
    simPc,       \* "idle","start","embedding","retrieved","generating","done"
    simDoc,      \* document_text
    scenario,    \* scenario
    simChunks,   \* chunk_text(document_text, 1500, 200)
    embedOut,    \* what embed_texts returned or raised
    relevant,    \* what _vector_retrieve_relevant_chunks returned
    selectedIdx, \* history: the chunk indices behind `relevant`
    simCalls,    \* number of embedding / generation calls issued
    genContext,  \* the excerpts handed to the generation call
    simResult,   \* what simulate_impact returned or raised
    \* ---- _split_large_section(section, chunk_size, overlap) ----
    section,     \* the section argument
    splitSize,   \* the chunk_size argument
    splitOverlap,\* the overlap argument
    splitPc,     \* "idle","loop","returned"
    splitStart,  \* start
    splitChunks, \* the list of fragments being built
    iters        \* history: <<start, end>> of each iteration of the while loop

chunkVars == <<text, cpc, sections, secIdx, chunks, current, chunkSrc, curSrc>>
pipeVars == <<pc, numChunks, taskPc, extractResp, chunkResult, completed,
              allClauses, sumIdx, sumPc, sumCtx, summaries, synthPc,
              finalReport, calls, sumResp, synthResp, result, on_progress,
              progressLog>>
simVars == <<simPc, simDoc, scenario, simChunks, embedOut, relevant,
             selectedIdx, simCalls, genContext, simResult>>
splitVars == <<section, splitSize, splitOverlap, splitPc, splitStart,
               splitChunks, iters>>
vars == <<chunkVars, pipeVars, simVars, splitVars>>

(***************************************************************************)
(* Bounds of the model.  ChunkSize and Overlap are the chunk_size and      *)
(* overlap arguments, scaled down from 4000/300 and 1500/200.              *)
(***************************************************************************)
ChunkSize == 8
Overlap == 2
MaxParas == 3
MaxChunks == 2
MaxFindings == 2
TopK == 2

(***************************************************************************)
(* Python string primitives                                                *)
(***************************************************************************)
Min(a, b) == IF a < b THEN a ELSE b
Max(a, b) == IF a > b THEN a ELSE b

NL == "\n"
CR == "\r"
SP == " "
Upper == {"A", "B"}
SentenceEnd == {".", "!", "?"}

IsSpace(c) == c \in {SP, NL, CR, "\t"}

Rep(c, n) == [i \in 1..n |-> c]

\* a slice index normalised as Python does: negative counts from the end
PyNorm(i, n) == IF i < 0 THEN Max(0, i + n) ELSE Min(i, n)

\* s[i:j]
Slice(s, i, j) ==
    LET lo == PyNorm(i, Len(s))
        hi == PyNorm(j, Len(s))
    IN  IF lo >= hi THEN <<>> ELSE SubSeq(s, lo + 1, hi)

\* s[i:]
SliceFrom(s, i) == Slice(s, i, Len(s))

\* s[-k:]   (s[-0:] is the whole string)
LastChars(s, k) == IF k = 0 THEN s ELSE SliceFrom(s, 0 - k)

\* the characters of s at the positions lo..hi that are in Keep, in order
RECURSIVE PickIn(_, _, _, _)
PickIn(s, Keep, lo, hi) ==
    IF lo > hi THEN <<>>
    ELSE IF lo = hi THEN (IF lo \in Keep THEN <<s[lo]>> ELSE <<>>)
    ELSE LET mid == (lo + hi) \div 2
         IN  PickIn(s, Keep, lo, mid) \o PickIn(s, Keep, mid + 1, hi)

\* the characters of s at the positions of Keep, in order
Pick(s, Keep) == PickIn(s, Keep, 1, Len(s))

\* s.strip(): from the first to the last character that is not whitespace
Strip(s) ==
    LET solid == {i \in 1..Len(s) : ~IsSpace(s[i])}
    IN  IF solid = {} THEN <<>>
        ELSE SubSeq(s, CHOOSE i \in solid : \A j \in solid : i <= j,
                       CHOOSE i \in solid : \A j \in solid : j <= i)

\* s.rfind(pat): the highest 0-based index where pat starts, or -1
RFind(s, pat) ==
    LET hits == {i \in 0..(Len(s) - Len(pat)) : Slice(s, i, i + Len(pat)) = pat}
    IN  IF hits = {} THEN 0 - 1 ELSE CHOOSE i \in hits : \A j \in hits : j <= i

\* pat in s
Contains(s, pat) == RFind(s, pat) # 0 - 1

\* length of the run of whitespace that starts at 1-based position p of s
SpaceRun(s, p) ==
    LET stops == {q \in p..(Len(s) + 1) : q > Len(s) \/ ~IsSpace(s[q])}
    IN  IF p > Len(s) THEN 0
        ELSE (CHOOSE q \in stops : \A q2 \in stops : q <= q2) - p

(***************************************************************************)
(* _parse_with_regex: the normalisation and the split into paragraphs.     *)
(* The type and level of a SemanticSection are not read by the chunker; a  *)
(* section is modelled by its content.                                     *)
(***************************************************************************)
\* re.sub(r"\r\n", "\n", text): the \r of every \r\n pair goes
SubCRLF(s) ==
    Pick(s, {i \in 1..Len(s) : ~(s[i] = CR /\ i < Len(s) /\ s[i + 1] = NL)})

\* re.sub(r"\r", "\n", text)
SubCR(s) == [i \in 1..Len(s) |-> IF s[i] = CR THEN NL ELSE s[i]]

\* re.sub(r"\n{3,}", "\n\n", text): of a run of newlines the first two stay
SubBlankRuns(s) ==
    Pick(s, {i \in 1..Len(s) :
               ~(s[i] = NL /\ i >= 3 /\ s[i - 1] = NL /\ s[i - 2] = NL)})

\* re.sub(r"[ \t]+", " ", text): a run of blanks becomes one space
SubSpaces(s) ==
    LET blank(i) == s[i] \in {SP, "\t"}
        kept == Pick(s, {i \in 1..Len(s) : ~blank(i) \/ i = 1 \/ ~blank(i - 1)})
    IN  [i \in 1..Len(kept) |-> IF kept[i] = "\t" THEN SP ELSE kept[i]]

Normalise(s) == Strip(SubSpaces(SubBlankRuns(SubCR(SubCRLF(s)))))

\* the last 1-based position of a newline inside s[p .. p+r-1]
LastNewline(s, p, r) ==
    CHOOSE q \in p..(p + r - 1) :
        /\ s[q] = NL
        /\ \A q2 \in p..(p + r - 1) : s[q2] = NL => q2 <= q

\* the 1-based positions from p on where a match of \n\s*\n starts
SeparatorStarts(s, p) ==
    {q \in p..Len(s) : s[q] = NL /\ LastNewline(s, q, SpaceRun(s, q)) > q}

\* re.split(r"\n\s*\n", s), for the part of s from 1-based position from
RECURSIVE SplitParas(_, _)
SplitParas(s, from) ==
    IF SeparatorStarts(s, from) = {} THEN <<SubSeq(s, from, Len(s))>>
    ELSE LET p == CHOOSE q \in SeparatorStarts(s, from) :
                      \A q2 \in SeparatorStarts(s, from) : q <= q2
             last == LastNewline(s, p, SpaceRun(s, p))
         IN  <<SubSeq(s, from, p - 1)>> \o SplitParas(s, last + 1)

\* the for loop of _parse_with_regex: strip, drop the empty ones
RECURSIVE KeepTrimmed(_)
KeepTrimmed(paras) ==
    IF paras = <<>> THEN <<>>
    ELSE IF Strip(Head(paras)) = <<>> THEN KeepTrimmed(Tail(paras))
         ELSE <<Strip(Head(paras))>> \o KeepTrimmed(Tail(paras))

_parse_with_regex(t) == KeepTrimmed(SplitParas(Normalise(t), 1))

(***************************************************************************)
(* _get_overlap_text                                                       *)
(***************************************************************************)
\* re.search(r"[.!?]\s+[A-Z]", area): the 1-based start of the leftmost match,
\* or 0 when there is none
SentenceMatches(area) ==
    {p \in 1..Len(area) :
        /\ area[p] \in SentenceEnd
        /\ SpaceRun(area, p + 1) >= 1
        /\ p + SpaceRun(area, p + 1) + 1 <= Len(area)
        /\ area[p + SpaceRun(area, p + 1) + 1] \in Upper}

FirstSentenceMatch(area) ==
    IF SentenceMatches(area) = {} THEN 0
    ELSE CHOOSE p \in SentenceMatches(area) : \A q \in SentenceMatches(area) : p <= q

\* m.group(0) of the match that starts at p
MatchText(area, p) == SubSeq(area, p, p + SpaceRun(area, p + 1) + 1)

_get_overlap_text(t, overlap_size) ==
    IF Len(t) <= overlap_size THEN t
    ELSE LET area == LastChars(t, (overlap_size * 3) \div 2)
             p == FirstSentenceMatch(area)
         IN  IF p # 0
             THEN Strip(SliceFrom(t, RFind(t, MatchText(area, p)) + 1))
             ELSE LastChars(t, overlap_size)

(***************************************************************************)
(* _split_large_section                                                    *)
(***************************************************************************)
\* the candidates list after the -1 entries are dropped
BreakCandidates(search_area) ==
    {c \in {RFind(search_area, <<NL, NL>>), RFind(search_area, <<NL>>),
            RFind(search_area, <<".", SP>>), RFind(search_area, <<",", SP>>)} :
        c # 0 - 1}

SetMax(S) == CHOOSE x \in S : \A y \in S : y <= x

\* the end of the fragment that starts at `start`
FragmentEnd(sec, start, chunk_size, overlap) ==
    LET end == start + chunk_size
        search_area == Slice(sec, start + chunk_size - overlap, end + overlap)
    IN  IF end < Len(sec) /\ BreakCandidates(search_area) # {}
        THEN start + chunk_size - overlap + SetMax(BreakCandidates(search_area))
        ELSE end

\* `start = end - overlap`
\* (variant: the overlap taken off twice)
NextStart_double(end, overlap) == end - 2 * overlap

NextStart(end, overlap) == end - overlap

\* the while loop, from `start`
RECURSIVE SplitFrom(_, _, _, _)
SplitFrom(sec, start, chunk_size, overlap) ==
    IF ~(start < Len(sec)) THEN <<>>
    ELSE LET end == FragmentEnd(sec, start, chunk_size, overlap)
             chunk == Strip(Slice(sec, start, end))
         IN  (IF chunk # <<>> THEN <<chunk>> ELSE <<>>)
                 \o SplitFrom(sec, NextStart(end, overlap), chunk_size, overlap)

_split_large_section(sec, chunk_size, overlap) ==
    SplitFrom(sec, 0, chunk_size, overlap)

(***************************************************************************)
(* _sections_to_chunks: one pass of the for loop over a section.  The      *)
(* loop state is [chunks, current] with the history fields src, cur.       *)
(***************************************************************************)
SectionStep(st, k, content, chunk_size, overlap) ==
    LET s_len == Len(content)
        flush == Len(st.current) + s_len > chunk_size /\ st.current # <<>>
        over == _get_overlap_text(st.current, overlap)
        chunks1 == IF flush THEN Append(st.chunks, Strip(st.current)) ELSE st.chunks
        src1 == IF flush THEN Append(st.src, st.cur) ELSE st.src
        current1 ==
            IF flush
            THEN over \o (IF over # <<>> THEN <<NL, NL>> ELSE <<>>) \o content
            ELSE IF st.current # <<>> THEN st.current \o <<NL, NL>> \o content
                 ELSE content
        subs == _split_large_section(content, chunk_size, overlap)
    IN  IF s_len > chunk_size
        THEN [chunks |-> chunks1 \o Tail(subs),
              current |-> subs[1],
              src |-> src1 \o [j \in 1..(Len(subs) - 1) |-> <<k, j + 1>>],
              cur |-> <<k, 1>>]
        ELSE [chunks |-> chunks1, current |-> current1,
              src |-> src1, cur |-> <<k, 0>>]

\* the tail of _sections_to_chunks: the last accumulator
FinalFlush(st) ==
    IF Strip(st.current) # <<>>
    THEN [st EXCEPT !.chunks = Append(st.chunks, Strip(st.current)),
                    !.src = Append(st.src, st.cur)]
    ELSE st

EmptyLoop == [chunks |-> <<>>, current |-> <<>>, src |-> <<>>, cur |-> <<0, 0>>]

RECURSIVE LoopFrom(_, _, _, _, _)
LoopFrom(st, secs, k, chunk_size, overlap) ==
    IF k > Len(secs) THEN st
    ELSE LoopFrom(SectionStep(st, k, secs[k], chunk_size, overlap),
                  secs, k + 1, chunk_size, overlap)

_sections_to_chunks(secs, chunk_size, overlap) ==
    FinalFlush(LoopFrom(EmptyLoop, secs, 1, chunk_size, overlap)).chunks

\* `len(text) <= chunk_size`
\* (variant: a text of exactly chunk_size characters is parsed)
FitsOneChunk_strict(t, chunk_size) == Len(t) < chunk_size

FitsOneChunk(t, chunk_size) == Len(t) <= chunk_size

\* chunk_text
chunk_text(t, chunk_size, overlap) ==
    IF FitsOneChunk(t, chunk_size) THEN <<t>>
    ELSE _sections_to_chunks(_parse_with_regex(t), chunk_size, overlap)

\* ==== state machine of chunk_text ====================================

(***************************************************************************)
(* Input texts: the empty text, and up to MaxParas paragraphs from         *)
(* ParaPool joined by the separators of SepPool.                           *)
(***************************************************************************)
ParaPool ==
    { Rep("a", 3),
      <<"a", "a", ".", SP, "A", "a", "a">>,
      Rep("a", ChunkSize),
      Rep("a", 2 * ChunkSize + 3),
      <<"a", "a", "a", "a", "a", ",", SP, "a", NL, "a", "a", "a", "a", "a",
        "a", "a", ".", SP, "a", "a", "a">>,
      <<SP, "a", "a", ".", SP, SP, "A", NL>>,
      Rep(SP, ChunkSize + 1) }

SepPool == { <<NL, NL>>, <<CR, NL, SP, NL, NL>> }

RECURSIVE TextsOf(_)
TextsOf(n) ==
    IF n = 1 THEN ParaPool
    ELSE {t \o s \o p : t \in TextsOf(n - 1), s \in SepPool, p \in ParaPool}

Texts == {<<>>} \cup UNION {TextsOf(n) : n \in 1..MaxParas}

ChunkIdle ==
    /\ text = <<>>
    /\ cpc = "idle"
    /\ sections = <<>>
    /\ secIdx = 0
    /\ chunks = <<>>
    /\ current = <<>>
    /\ chunkSrc = <<>>
    /\ curSrc = <<0, 0>>

\* chunk_text is called with a text
ChunkCall ==
    /\ text \in Texts
    /\ cpc = "call"
    /\ sections = <<>>
    /\ secIdx = 0
    /\ chunks = <<>>
    /\ current = <<>>
    /\ chunkSrc = <<>>
    /\ curSrc = <<0, 0>>

\* if len(text) <= chunk_size: return [text]
ChunkShort ==
    /\ cpc = "call"
    /\ FitsOneChunk(text, ChunkSize)
    /\ chunks' = <<text>>
    /\ chunkSrc' = << <<0, 0>> >>
    /\ cpc' = "returned"
    /\ UNCHANGED <<text, sections, secIdx, current, curSrc>>

\* sections = _parse_with_regex(text)
ChunkParse ==
    /\ cpc = "call"
    /\ ~FitsOneChunk(text, ChunkSize)
    /\ sections' = _parse_with_regex(text)
    /\ cpc' = "loop"
    /\ UNCHANGED <<text, secIdx, chunks, current, chunkSrc, curSrc>>

LoopState == [chunks |-> chunks, current |-> current, src |-> chunkSrc, cur |-> curSrc]

\* one iteration of `for section in sections`
ChunkSection ==
    /\ cpc = "loop"
    /\ secIdx < Len(sections)
    /\ LET st == SectionStep(LoopState, secIdx + 1, sections[secIdx + 1],
                             ChunkSize, Overlap)
       IN  /\ chunks' = st.chunks
           /\ current' = st.current
           /\ chunkSrc' = st.src
           /\ curSrc' = st.cur
    /\ secIdx' = secIdx + 1
    /\ UNCHANGED <<text, cpc, sections>>

\* after the loop: the last accumulator, then return chunks
ChunkFinish ==
    /\ cpc = "loop"
    /\ secIdx = Len(sections)
    /\ LET st == FinalFlush(LoopState)
       IN  /\ chunks' = st.chunks
           /\ chunkSrc' = st.src
    /\ cpc' = "returned"
    /\ UNCHANGED <<text, sections, secIdx, current, curSrc>>

\* ==== state machine of _split_large_section =========================

(***************************************************************************)
(* Oversize sections as the parser hands them over: stripped, single       *)
(* spaces, no blank line.  The parameters are the pairs with               *)
(* chunk_size > 2 * overlap >= 0 for which the section is oversize.        *)
(***************************************************************************)
SectionPool ==
    { Rep("a", 2 * ChunkSize + 3),
      <<"a", "a", "a", "a", "a", "a", NL, "a", ",", SP, "a", "a", "a", "a",
        "a", "a", "a">>,
      <<"a", "a", "a", "a", "a", ",", SP, "a", NL, "a", "a", "a", "a", "a",
        "a", "a", ".", SP, "a", "a", "a">>,
      <<"a", "a", "a", "a", "a", "a", ",", SP>> \o Rep("a", ChunkSize + 2),
      <<"a", ",", SP, "a", ",", SP, "a", ".", SP, "a", ",", SP, "a", NL, "a",
        ",", SP, "a", ".", SP, "a">>,
      <<"a", "a", "a", "a", ".", SP, "a", "a", NL, "a", "a", "a", ",", SP,
        "a", "a", "a", "a">> }

SplitSizes == (ChunkSize - 3)..ChunkSize
SplitOverlaps == 0..Overlap

SplitIdle ==
    /\ section = <<>>
    /\ splitSize = 0
    /\ splitOverlap = 0
    /\ splitPc = "idle"
    /\ splitStart = 0
    /\ splitChunks = <<>>
    /\ iters = <<>>

\* _split_large_section is called: chunks = [], start = 0
SplitCall ==
    /\ section \in SectionPool
    /\ splitSize \in SplitSizes
    /\ splitOverlap \in SplitOverlaps
    /\ splitSize > 2 * splitOverlap
    /\ Len(section) > splitSize
    /\ splitPc = "loop"
    /\ splitStart = 0
    /\ splitChunks = <<>>
    /\ iters = <<>>

\* one iteration of `while start < len(section)`
SplitIteration ==
    /\ splitPc = "loop"
    /\ splitStart < Len(section)
    /\ \E end \in {FragmentEnd(section, splitStart, splitSize, splitOverlap)} :
       \E chunk \in {Strip(Slice(section, splitStart, end))} :
           /\ splitChunks' = IF chunk # <<>> THEN Append(splitChunks, chunk)
                                             ELSE splitChunks
           /\ splitStart' = NextStart(end, splitOverlap)
           /\ iters' = Append(iters, <<splitStart, end>>)
    /\ UNCHANGED <<section, splitSize, splitOverlap, splitPc>>

\* the loop condition fails: return chunks
SplitReturn ==
    /\ splitPc = "loop"
    /\ ~(splitStart < Len(section))
    /\ splitPc' = "returned"
    /\ UNCHANGED <<section, splitSize, splitOverlap, splitStart, splitChunks, iters>>

\* ==== state machine of analyze_contract ==============================

(***************************************************************************)
(* Values.  A JSON value is [t, v]: t its type, v its payload.  A dict is  *)
(* a function from keys to JSON values.  A finding is <<chunk, position>>: *)
(* the position-th clause the capability reported for that chunk.          *)
(***************************************************************************)
Null == [t |-> "null", v |-> <<>>]
JList(items) == [t |-> "list", v |-> items]
JStr(x) == [t |-> "str", v |-> x]
JDict(f) == [t |-> "dict", v |-> f]
EmptyDict == JDict([k \in {} |-> Null])

\* Python truthiness of a parsed value
Truthy(j) ==
    CASE j.t = "null" -> FALSE
      [] j.t = "list" -> Len(j.v) > 0
      [] j.t = "str" -> j.v # ""
      [] j.t = "dict" -> DOMAIN j.v # {}

\* a generated text: fenced says it is wrapped in a Markdown code fence,
\* json whether the text inside is valid JSON, val the value it denotes
Raw(fenced, json, val) == [fenced |-> fenced, json |-> json, val |-> val]

\* an HTTP exchange: net = "error" when the request itself failed
Http(net, status, content) == [net |-> net, status |-> status, content |-> content]

NoResp == Http("none", 0, Raw(FALSE, FALSE, Null))

Findings(i, m) == [k \in 1..m |-> <<i, k>>]

ExtractOutputs(i) ==
    { Raw(FALSE, FALSE, Null),
      Raw(FALSE, TRUE, Null),
      Raw(FALSE, TRUE, JList(Findings(i, 1))),
      Raw(FALSE, TRUE, EmptyDict),
      Raw(FALSE, TRUE, JDict([k \in {"summary"} |-> JStr("s")])),
      Raw(FALSE, TRUE, JDict([k \in {"clauses"} |-> Null])) }
    \cup { Raw(FALSE, TRUE, JDict([k \in {"clauses"} |-> JList(Findings(i, m))])) :
             m \in 0..MaxFindings }
    \cup { Raw(TRUE, TRUE, JDict([k \in {"clauses"} |-> JList(Findings(i, MaxFindings))])) }

FailedExchanges ==
    { Http("error", 0, Raw(FALSE, FALSE, Null)),
      Http("ok", 500, Raw(FALSE, FALSE, Null)) }

ExtractResponses(i) ==
    FailedExchanges \cup { Http("ok", 200, o) : o \in ExtractOutputs(i) }

SummaryTexts == { <<SP, "s", NL>> }

SummaryResponses ==
    { Http("error", 0, <<>>), Http("ok", 500, <<>>) }
    \cup { Http("ok", 200, x) : x \in SummaryTexts }

OwnSummaries == JList(<< [chunkIndex |-> 9, summary |-> <<"x">>] >>)

SynthOutputs ==
    { Raw(FALSE, FALSE, Null),
      Raw(TRUE, FALSE, Null),
      Raw(FALSE, TRUE, EmptyDict),
      Raw(FALSE, TRUE, JList(<<1>>)),
      Raw(FALSE, TRUE, JDict([k \in {"summary"} |-> JStr("s")])),
      Raw(TRUE, TRUE, JDict([k \in {"summary", "chunkSummaries"} |->
            IF k = "summary" THEN JStr("s") ELSE OwnSummaries])),
      Raw(FALSE, TRUE, JDict([k \in {"summary", "chunkSummaries", "clauses"} |->
            IF k = "summary" THEN JStr("s")
            ELSE IF k = "clauses" THEN JList(<<>>) ELSE OwnSummaries])) }

SynthResponses == FailedExchanges \cup { Http("ok", 200, o) : o \in SynthOutputs }

(***************************************************************************)
(* Errors and outcomes                                                     *)
(***************************************************************************)
Raised(exc, msg) == [raised |-> TRUE, exc |-> exc, msg |-> msg, value |-> Null]
Returned(x) == [raised |-> FALSE, exc |-> "", msg |-> "", value |-> x]

ChatFailedMsg == "Groq chat failed"
NoClausesMsg == "No legal clauses were identified in the document. It might be too short or in an unsupported format."
SynthParseMsg == "Failed to parse synthesis JSON"

NoResult == [kind |-> "none", exc |-> "", msg |-> "", report |-> <<>>]
ErrorResult(r) == [kind |-> "error", exc |-> r.exc, msg |-> r.msg, report |-> <<>>]
ReportResult(rep) == [kind |-> "report", exc |-> "", msg |-> "", report |-> rep]

(***************************************************************************)
(* groq_service.chat_complete: the outcome of one call, given the exchange *)
(***************************************************************************)
\* (variant: the status of the exchange is not checked)
chat_complete_unchecked(resp) == Returned(resp.content)

chat_complete(resp) ==
    IF resp.net # "ok" THEN Raised("httpx.HTTPError", "request failed")
    ELSE IF resp.status # 200 THEN Raised("RuntimeError", ChatFailedMsg)
    ELSE Returned(resp.content)

(***************************************************************************)
(* _try_parse_json: strip a code fence, then json.loads; None on failure.  *)
(* A text still wrapped in a fence is not JSON.                            *)
(***************************************************************************)
StripFence(output) == [output EXCEPT !.fenced = FALSE]

JsonLoads(cleaned) ==
    IF cleaned.fenced \/ ~cleaned.json THEN Raised("JSONDecodeError", "")
    ELSE Returned(cleaned.val)

_try_parse_json(output) ==
    LET r == JsonLoads(StripFence(output))
    IN  IF r.raised THEN Null ELSE r.value

(***************************************************************************)
(* _analyze_chunk, after its chat_complete call returned `output`          *)
(***************************************************************************)
\* (variant: the parsed value is not checked to be a non-empty dict)
_analyze_chunk_unguarded(output) ==
    LET parsed == _try_parse_json(output)
    IN  IF parsed.t = "dict" /\ "clauses" \in DOMAIN parsed.v
        THEN parsed.v["clauses"] ELSE parsed

_analyze_chunk(output) ==
    LET parsed == _try_parse_json(output)
    IN  IF Truthy(parsed) /\ parsed.t = "dict"
        THEN IF "clauses" \in DOMAIN parsed.v THEN parsed.v["clauses"] ELSE JList(<<>>)
        ELSE JList(<<>>)

(***************************************************************************)
(* asyncio.gather: the list handed back, given the value each task         *)
(* returned and the order in which the tasks completed                     *)
(***************************************************************************)
\* (variant: results appended as the tasks complete)
gather_as_completed(slots, order) == [k \in 1..Len(order) |-> slots[order[k]]]

gather(slots, order) == [i \in 1..Len(order) |-> slots[i]]

\* the loop `for result in chunk_results: all_clauses.extend(result)`
RECURSIVE ExtendAll(_, _)
ExtendAll(acc, chunk_results) ==
    IF chunk_results = <<>> THEN Returned(acc)
    ELSE IF Head(chunk_results).t # "list"
         THEN Raised("TypeError", "object is not iterable")
         ELSE ExtendAll(acc \o Head(chunk_results).v, Tail(chunk_results))

\* `if not all_clauses: raise RuntimeError(...)`
\* (variant: the emptiness check left out)
CheckNotEmpty_skipped(all_clauses) == Returned(all_clauses)

CheckNotEmpty(all_clauses) ==
    IF all_clauses = <<>> THEN Raised("RuntimeError", NoClausesMsg)
    ELSE Returned(all_clauses)

(***************************************************************************)
(* _create_chunk_summaries: the slice of clauses shown for chunk i         *)
(* (0-based), and the entry appended for it                                *)
(***************************************************************************)
\* (variant: the quotient rounded down)
PerChunk_floor(n_clauses, n_chunks) ==
    IF n_chunks # 0 THEN n_clauses \div n_chunks ELSE n_clauses

PerChunk(n_clauses, n_chunks) ==
    IF n_chunks # 0 THEN (n_clauses + n_chunks - 1) \div n_chunks ELSE n_clauses

ChunkClauses(clauses, n_chunks, i) ==
    LET per_chunk == PerChunk(Len(clauses), n_chunks)
        start == i * per_chunk
        end == Min(start + per_chunk, Len(clauses))
    IN  Slice(clauses, start, end)

SummaryEntry(i, output) == [chunkIndex |-> i + 1, summary |-> Strip(output)]

(***************************************************************************)
(* _synthesize_report, after its chat_complete call returned `output`      *)
(***************************************************************************)
\* (variant: an unparseable output gives an empty report instead of an error)
_synthesize_report_lenient(output) ==
    LET parsed == _try_parse_json(output)
    IN  IF parsed.t # "dict"
        THEN Returned(JDict([k \in {"chunkSummaries"} |-> JList(<<>>)]))
        ELSE Returned(JDict([k \in DOMAIN parsed.v \cup {"chunkSummaries"} |->
                IF k \in DOMAIN parsed.v THEN parsed.v[k] ELSE JList(<<>>)]))

_synthesize_report(output) ==
    LET parsed == _try_parse_json(output)
    IN  IF ~Truthy(parsed) THEN Raised("RuntimeError", SynthParseMsg)
        ELSE IF parsed.t # "dict" THEN Raised("TypeError", "item assignment")
        ELSE IF "chunkSummaries" \notin DOMAIN parsed.v
             THEN Returned(JDict([k \in DOMAIN parsed.v \cup {"chunkSummaries"} |->
                     IF k = "chunkSummaries" THEN JList(<<>>) ELSE parsed.v[k]]))
             ELSE Returned(parsed)

\* the dict analyze_contract returns
\* (variant: the synthesis fields win over the pipeline's own)
BuildReport_synthesis_wins(final_report, all_clauses, chunk_summaries) ==
    [k \in DOMAIN final_report.v \cup {"clauses", "chunkSummaries"} |->
        IF k \in DOMAIN final_report.v THEN final_report.v[k]
        ELSE IF k = "clauses" THEN JList(all_clauses)
        ELSE JList(chunk_summaries)]

BuildReport(final_report, all_clauses, chunk_summaries) ==
    [k \in DOMAIN final_report.v \cup {"clauses", "chunkSummaries"} |->
        IF k = "clauses" THEN JList(all_clauses)
        ELSE IF k = "chunkSummaries" THEN JList(chunk_summaries)
        ELSE final_report.v[k]]

(***************************************************************************)
(* The progress callback.  on_progress is None or a callable; a callable   *)
(* returns, or raises when it is called for the raisesAt-th time           *)
(* (raisesAt = 0: it never raises).                                        *)
(***************************************************************************)
NoCallback == [given |-> FALSE, raisesAt |-> 0]
Callback(k) == [given |-> TRUE, raisesAt |-> k]

Callbacks == {NoCallback, Callback(0), Callback(1), Callback(4)}

ConvertingMsg == <<"Converting document to Markdown for better parsing...">>
ChunkingMsg == <<"Chunking document...">>
AnalyzingMsg(n) == <<"Analyzing ", n, " document section(s)...">>
SummariesMsg == <<"Creating chunk summaries...">>
SynthesizingMsg == <<"Synthesizing final report...">>

\* progress(msg) for each msg of msgs in turn, after the calls of log:
\* `if on_progress: on_progress(msg)`.  An exception of the callback is not
\* caught; it ends the sequence.
RECURSIVE progress(_, _, _)
progress(cb, log, msgs) ==
    IF msgs = <<>> THEN [r |-> Returned(Null), log |-> log]
    ELSE IF ~cb.given THEN progress(cb, log, Tail(msgs))
    ELSE IF cb.raisesAt = Len(log) + 1
         THEN [r |-> Raised("CallbackError", "raised by on_progress"),
               log |-> Append(log, Head(msgs))]
         ELSE progress(cb, Append(log, Head(msgs)), Tail(msgs))

(***************************************************************************)
(* analyze_contract as a state machine                                     *)
(***************************************************************************)
Tasks == 1..numChunks

NoCalls(n) == [extract |-> [i \in 1..n |-> 0],
               summary |-> [i \in 1..n |-> 0],
               synth |-> 0]

PipeIdle ==
    /\ pc = "idle"
    /\ numChunks = 0
    /\ taskPc = <<>>
    /\ extractResp = <<>>
    /\ chunkResult = <<>>
    /\ completed = <<>>
    /\ allClauses = <<>>
    /\ sumIdx = 0
    /\ sumPc = "idle"
    /\ sumCtx = <<>>
    /\ summaries = <<>>
    /\ synthPc = "idle"
    /\ finalReport = Null
    /\ calls = NoCalls(0)
    /\ sumResp = <<>>
    /\ synthResp = <<>>
    /\ result = NoResult
    /\ on_progress = NoCallback
    /\ progressLog = <<>>

\* analyze_contract is called; chunk_text gave numChunks chunks.  The text
\* handed to chunk_text is stripped by convert_pdf_to_markdown, so a text
\* long enough to be parsed has a section: there is at least one chunk.
PipeCall ==
    /\ pc = "start"
    /\ numChunks \in 1..MaxChunks
    /\ taskPc = [i \in 1..numChunks |-> "none"]
    /\ extractResp = [i \in 1..numChunks |-> NoResp]
    /\ chunkResult = [i \in 1..numChunks |-> Null]
    /\ completed = <<>>
    /\ allClauses = <<>>
    /\ sumIdx = 0
    /\ sumPc = "idle"
    /\ sumCtx = <<>>
    /\ summaries = <<>>
    /\ synthPc = "idle"
    /\ finalReport = Null
    /\ calls = NoCalls(numChunks)
    /\ sumResp = <<>>
    /\ synthResp = <<>>
    /\ result = NoResult
    /\ on_progress \in Callbacks
    /\ progressLog = <<>>

\* the end of analyze_contract by an exception
Fail(r) ==
    /\ pc' = "failed"
    /\ result' = ErrorResult(r)

\* asyncio.gather(*[_analyze_chunk(chunk, role) for chunk in chunks])
\* (the three milestones before it are reported first)
StartGather ==
    /\ pc = "start"
    /\ LET p == progress(on_progress, progressLog,
                         <<ConvertingMsg, ChunkingMsg, AnalyzingMsg(numChunks)>>)
       IN  /\ progressLog' = p.log
           /\ IF p.r.raised
              THEN /\ Fail(p.r)
                   /\ UNCHANGED taskPc
              ELSE /\ pc' = "gather"
                   /\ taskPc' = [i \in Tasks |-> "created"]
                   /\ UNCHANGED result
    /\ UNCHANGED <<numChunks, on_progress, extractResp, chunkResult,
                   completed, allClauses, sumIdx, sumPc, sumCtx, summaries,
                   synthPc, finalReport, calls, sumResp, synthResp>>

\* task i reaches `await chat_complete(...)`: its request is sent
TaskCall(i) ==
    /\ taskPc[i] = "created"
    /\ taskPc' = [taskPc EXCEPT ![i] = "awaiting"]
    /\ calls' = [calls EXCEPT !.extract[i] = @ + 1]
    /\ UNCHANGED <<pc, numChunks, on_progress, progressLog, extractResp,
                   chunkResult, completed, allClauses, sumIdx, sumPc, sumCtx,
                   summaries, synthPc, finalReport, sumResp, synthResp, result>>

\* task i's exchange ends.  A task that returns fills its own slot; the first
\* task that raises makes the gather, and with it analyze_contract, raise.
\* The other tasks are not cancelled: they run on, and their results are
\* dropped.
TaskResponse(i, resp) ==
    /\ taskPc[i] = "awaiting"
    /\ extractResp' = [extractResp EXCEPT ![i] = resp]
    /\ LET r == chat_complete(resp)
       IN  IF r.raised
           THEN /\ taskPc' = [taskPc EXCEPT ![i] = "raised"]
                /\ UNCHANGED <<chunkResult, completed>>
                /\ IF pc = "gather" THEN Fail(r) ELSE UNCHANGED <<pc, result>>
           ELSE /\ taskPc' = [taskPc EXCEPT ![i] = "done"]
                /\ chunkResult' = [chunkResult EXCEPT ![i] = _analyze_chunk(r.value)]
                /\ completed' = Append(completed, i)
                /\ UNCHANGED <<pc, result>>
    /\ UNCHANGED <<numChunks, on_progress, progressLog, allClauses, sumIdx,
                   sumPc, sumCtx, summaries, synthPc, finalReport, calls,
                   sumResp, synthResp>>

\* every task returned: gather returns, the results are flattened and
\* checked, and the summaries milestone is reported
GatherReturn ==
    /\ pc = "gather"
    /\ \A i \in Tasks : taskPc[i] = "done"
    /\ LET flat == ExtendAll(<<>>, gather(chunkResult, completed))
           checked == IF flat.raised THEN flat ELSE CheckNotEmpty(flat.value)
       IN  IF checked.raised
           THEN /\ Fail(checked)
                /\ allClauses' = IF flat.raised THEN allClauses ELSE flat.value
                /\ UNCHANGED progressLog
           ELSE LET p == progress(on_progress, progressLog, <<SummariesMsg>>)
                IN  /\ allClauses' = flat.value
                    /\ progressLog' = p.log
                    /\ IF p.r.raised THEN Fail(p.r)
                       ELSE pc' = "summaries" /\ UNCHANGED result
    /\ UNCHANGED <<numChunks, on_progress, taskPc, extractResp, chunkResult,
                   completed, sumIdx, sumPc, sumCtx, summaries, synthPc,
                   finalReport, calls, sumResp, synthResp>>

\* _create_chunk_summaries: the call for chunk sumIdx (0-based) is sent
SummaryCall ==
    /\ pc = "summaries"
    /\ sumPc = "idle"
    /\ sumIdx < numChunks
    /\ sumCtx' = Append(sumCtx, ChunkClauses(allClauses, numChunks, sumIdx))
    /\ calls' = [calls EXCEPT !.summary[sumIdx + 1] = @ + 1]
    /\ sumPc' = "awaiting"
    /\ UNCHANGED <<pc, numChunks, on_progress, progressLog, taskPc,
                   extractResp, chunkResult, completed, allClauses, sumIdx,
                   summaries, synthPc, finalReport, sumResp, synthResp, result>>

\* the summary call's exchange ends
SummaryResponse(resp) ==
    /\ pc = "summaries"
    /\ sumPc = "awaiting"
    /\ sumResp' = Append(sumResp, resp)
    /\ LET r == chat_complete(resp)
       IN  IF r.raised
           THEN /\ Fail(r)
                /\ UNCHANGED <<summaries, sumIdx, sumPc>>
           ELSE /\ summaries' = Append(summaries, SummaryEntry(sumIdx, r.value))
                /\ sumIdx' = sumIdx + 1
                /\ sumPc' = "idle"
                /\ UNCHANGED <<pc, result>>
    /\ UNCHANGED <<numChunks, on_progress, progressLog, taskPc, extractResp,
                   chunkResult, completed, allClauses, sumCtx, synthPc,
                   finalReport, calls, synthResp>>

\* the for loop of _create_chunk_summaries is over when every chunk has its
\* entry
\* (variant: synthesis does not wait for the summaries)
SummariesReturned_early(idx, n_chunks) == idx <= n_chunks

SummariesReturned(idx, n_chunks) == idx = n_chunks

\* _create_chunk_summaries returns; the synthesis milestone is reported and
\* _synthesize_report sends its call
SynthCall ==
    /\ pc = "summaries"
    /\ sumPc = "idle"
    /\ SummariesReturned(sumIdx, numChunks)
    /\ LET p == progress(on_progress, progressLog, <<SynthesizingMsg>>)
       IN  /\ progressLog' = p.log
           /\ IF p.r.raised
              THEN /\ Fail(p.r)
                   /\ UNCHANGED <<synthPc, calls>>
              ELSE /\ pc' = "synthesis"
                   /\ synthPc' = "awaiting"
                   /\ calls' = [calls EXCEPT !.synth = @ + 1]
                   /\ UNCHANGED result
    /\ UNCHANGED <<numChunks, on_progress, taskPc, extractResp, chunkResult,
                   completed, allClauses, sumIdx, sumPc, sumCtx, summaries,
                   finalReport, sumResp, synthResp>>

\* the synthesis call's exchange ends; analyze_contract returns or raises
SynthResponse(resp) ==
    /\ pc = "synthesis"
    /\ synthPc = "awaiting"
    /\ synthResp' = Append(synthResp, resp)
    /\ synthPc' = "returned"
    /\ LET r == chat_complete(resp)
           rep == IF r.raised THEN r ELSE _synthesize_report(r.value)
       IN  IF rep.raised
           THEN /\ Fail(rep)
                /\ UNCHANGED finalReport
           ELSE /\ finalReport' = rep.value
                /\ result' = ReportResult(BuildReport(rep.value, allClauses, summaries))
                /\ pc' = "done"
    /\ UNCHANGED <<numChunks, on_progress, progressLog, taskPc, extractResp,
                   chunkResult, completed, allClauses, sumIdx, sumPc, sumCtx,
                   summaries, calls, sumResp>>

\* ==== state machine of simulate_impact ===============================

(***************************************************************************)
(* Embedding vectors.  A vector is [ok, c]: c its components, ok = FALSE   *)
(* when some component is not a number.                                    *)
(***************************************************************************)
Vec(c) == [ok |-> TRUE, c |-> c]
BadVec == [ok |-> FALSE, c |-> <<0, 0>>]

VecPool == { Vec(<<0, 0>>), Vec(<<1, 0>>), Vec(<<2, 0>>), Vec(<<0, 1>>),
             Vec(<<0 - 1, 0>>) }

RECURSIVE SeqsOf(_, _)
SeqsOf(S, n) ==
    IF n = 0 THEN {<<>>} ELSE {Append(q, x) : q \in SeqsOf(S, n - 1), x \in S}

\* an embeddings exchange: data is the list of vectors of the response body
\* (malformed: an entry of the body has no "embedding" key)
Embedding(net, status, malformed, data) ==
    [net |-> net, status |-> status, malformed |-> malformed, data |-> data]

\* the exchanges embed_texts can meet when it sends n texts
EmbedExchanges(n) ==
    { Embedding("error", 0, FALSE, <<>>),
      Embedding("ok", 500, FALSE, <<>>),
      Embedding("ok", 200, TRUE, <<>>),
      Embedding("ok", 200, FALSE, <<>>),
      Embedding("ok", 200, FALSE, Rep(Vec(<<1, 0>>), n - 1)),
      Embedding("ok", 200, FALSE, Rep(Vec(<<1, 0>>), n + 1)),
      Embedding("ok", 200, FALSE, Rep(BadVec, n)) }
    \cup { Embedding("ok", 200, FALSE, d) : d \in SeqsOf(VecPool, n) }

\* groq_service.embed_texts: the outcome of the call, given the exchange
embed_texts(resp) ==
    IF resp.net # "ok" THEN Raised("httpx.HTTPError", "request failed")
    ELSE IF resp.status # 200 THEN Raised("RuntimeError", "Groq embeddings failed")
    ELSE IF resp.malformed THEN Raised("KeyError", "embedding")
    ELSE Returned(resp.data)

(***************************************************************************)
(* _cosine_similarity.  The float dot / (na * nb) is represented by the    *)
(* rational sign(dot) * dot^2 / (na^2 * nb^2), which orders the same       *)
(* values the same way; float rounding is not modelled.  With a zero norm  *)
(* the denominator is 1.0.                                                 *)
(***************************************************************************)
RECURSIVE Dot(_, _)
Dot(a, b) ==
    IF a = <<>> \/ b = <<>> THEN 0 ELSE Head(a) * Head(b) + Dot(Tail(a), Tail(b))

_cosine_similarity(a, b) ==
    LET dot == Dot(a, b)
        na2 == Dot(a, a)
        nb2 == Dot(b, b)
        denom2 == IF na2 * nb2 = 0 THEN 1 ELSE na2 * nb2
    IN  [num |-> IF dot < 0 THEN 0 - dot * dot ELSE dot * dot, den |-> denom2]

SimLess(x, y) == x.num * y.den < y.num * x.den
SimEq(x, y) == x.num * y.den = y.num * x.den

(***************************************************************************)
(* sorted(..., key=lambda x: x[1], reverse=True): a stable sort, highest   *)
(* key first; entries of equal key keep their order.  An entry is          *)
(* [idx, sim].                                                             *)
(***************************************************************************)
\* e goes after every entry whose key is not lower than its own
RECURSIVE InsertDesc(_, _)
InsertDesc(done, e) ==
    IF done = <<>> THEN <<e>>
    ELSE IF SimLess(Head(done).sim, e.sim) THEN <<e>> \o done
         ELSE <<Head(done)>> \o InsertDesc(Tail(done), e)

RECURSIVE SortFrom(_, _)
SortFrom(done, rest) ==
    IF rest = <<>> THEN done ELSE SortFrom(InsertDesc(done, Head(rest)), Tail(rest))

\* (variant: an entry goes before the entries of equal key, as in an
\* ascending sort that is then reversed)
RECURSIVE InsertBeforeEquals(_, _)
InsertBeforeEquals(done, e) ==
    IF done = <<>> THEN <<e>>
    ELSE IF ~SimLess(e.sim, Head(done).sim) THEN <<e>> \o done
         ELSE <<Head(done)>> \o InsertBeforeEquals(Tail(done), e)

RECURSIVE SortFromReversed(_, _)
SortFromReversed(done, rest) ==
    IF rest = <<>> THEN done
    ELSE SortFromReversed(InsertBeforeEquals(done, Head(rest)), Tail(rest))

SortedDesc_ties_reversed(scored) == SortFromReversed(<<>>, scored)

SortedDesc(scored) == SortFrom(<<>>, scored)

(***************************************************************************)
(* _vector_retrieve_relevant_chunks, given the exchange its embed_texts    *)
(* call meets.  value is the list returned, idx the chunk indices (1-based)*)
(* behind it.                                                              *)
(***************************************************************************)
Retrieved(texts, idx) ==
    [raised |-> FALSE, exc |-> "", msg |-> "", value |-> texts, idx |-> idx]

AllChunks(chunkList) == Retrieved(chunkList, [i \in 1..Len(chunkList) |-> i])

\* the body of the try block
RetrieveBody(chunkList, resp, top_k) ==
    LET n_inputs == Len(chunkList) + 1
        e == embed_texts(resp)
    IN  IF e.raised THEN e
        ELSE IF Len(e.value) # n_inputs THEN AllChunks(chunkList)
        ELSE IF \E i \in 1..n_inputs : ~e.value[i].ok
             THEN Raised("TypeError", "unsupported operand")
        ELSE LET query_vec == e.value[n_inputs].c
                 scored == SortedDesc([i \in 1..Len(chunkList) |->
                              [idx |-> i,
                               sim |-> _cosine_similarity(e.value[i].c, query_vec)]])
                 top == SubSeq(scored, 1, Min(top_k, Len(scored)))
             IN  IF top # <<>>
                 THEN Retrieved([k \in 1..Len(top) |-> chunkList[top[k].idx]],
                                [k \in 1..Len(top) |-> top[k].idx])
                 ELSE AllChunks(chunkList)

\* (variant: no except clause)
_vector_retrieve_relevant_chunks_no_except(chunkList, resp, top_k) ==
    RetrieveBody(chunkList, resp, top_k)

\* try: ... except Exception: return chunks
_vector_retrieve_relevant_chunks(chunkList, resp, top_k) ==
    LET r == RetrieveBody(chunkList, resp, top_k)
    IN  IF r.raised THEN AllChunks(chunkList) ELSE r

(***************************************************************************)
(* simulate_impact as a state machine                                      *)
(***************************************************************************)
GuidanceMsg == "Please enter a scenario to simulate."
NotFoundMsg == "Could not find any information in the document relevant to your scenario. Please try rephrasing your question or check if the topic is covered in the contract."

NoSimResult == [kind |-> "none", text |-> ""]
SimText(x) == [kind |-> "text", text |-> x]
SimError(r) == [kind |-> "error", text |-> r.msg]

SimDocs ==
    { Rep(SP, ChunkSize + 1),
      Rep("a", 3),
      Rep("a", ChunkSize) \o <<NL, NL>> \o Rep("b", ChunkSize),
      Rep("a", ChunkSize) \o <<NL, NL>> \o Rep("b", ChunkSize)
          \o <<NL, NL>> \o Rep("c", ChunkSize),
      Rep("a", ChunkSize) \o <<NL, NL>> \o Rep("b", ChunkSize)
          \o <<NL, NL>> \o Rep("a", ChunkSize) \o <<NL, NL>> \o Rep("d", ChunkSize) }

Scenarios == { <<>>, <<SP, NL>>, <<"q">> }

GenResponses ==
    { Http("error", 0, ""), Http("ok", 500, ""), Http("ok", 200, "answer") }

SimIdle ==
    /\ simPc = "idle"
    /\ simDoc = <<>>
    /\ scenario = <<>>
    /\ simChunks = <<>>
    /\ embedOut = Embedding("none", 0, FALSE, <<>>)
    /\ relevant = <<>>
    /\ selectedIdx = <<>>
    /\ simCalls = [embed |-> 0, gen |-> 0]
    /\ genContext = <<>>
    /\ simResult = NoSimResult

\* simulate_impact is called
SimCall ==
    /\ simPc = "start"
    /\ simDoc \in SimDocs
    /\ scenario \in Scenarios
    /\ simChunks = <<>>
    /\ embedOut = Embedding("none", 0, FALSE, <<>>)
    /\ relevant = <<>>
    /\ selectedIdx = <<>>
    /\ simCalls = [embed |-> 0, gen |-> 0]
    /\ genContext = <<>>
    /\ simResult = NoSimResult

\* `not scenario.strip()`
\* (variant: the scenario is tested without being stripped)
ScenarioMissing_unstripped(s) == s = <<>>

ScenarioMissing(s) == Strip(s) = <<>>

\* if not scenario.strip(): return the guidance message
SimBlank ==
    /\ simPc = "start"
    /\ ScenarioMissing(scenario)
    /\ simResult' = SimText(GuidanceMsg)
    /\ simPc' = "done"
    /\ UNCHANGED <<simDoc, scenario, simChunks, embedOut, relevant, selectedIdx,
                   simCalls, genContext>>

\* chunk the document; the retriever sends chunks + [query] to embed_texts
SimEmbedCall ==
    /\ simPc = "start"
    /\ ~ScenarioMissing(scenario)
    /\ simChunks' = chunk_text(simDoc, ChunkSize, Overlap)
    /\ simCalls' = [simCalls EXCEPT !.embed = @ + 1]
    /\ simPc' = "embedding"
    /\ UNCHANGED <<simDoc, scenario, embedOut, relevant, selectedIdx, genContext,
                   simResult>>

\* the embeddings exchange ends: the retriever returns (or raises), and
\* simulate_impact returns the not-found message or sends its generation call
SimRetrievedWith(resp) ==
    /\ embedOut' = resp
    /\ LET r == _vector_retrieve_relevant_chunks(simChunks, resp, TopK)
       IN  IF r.raised
           THEN /\ simResult' = SimError(r)
                /\ simPc' = "done"
                /\ UNCHANGED <<relevant, selectedIdx, simCalls, genContext>>
           ELSE /\ relevant' = r.value
                /\ selectedIdx' = r.idx
                /\ IF r.value = <<>>
                   THEN /\ simResult' = SimText(NotFoundMsg)
                        /\ simPc' = "done"
                        /\ UNCHANGED <<simCalls, genContext>>
                   ELSE /\ genContext' = r.value
                        /\ simCalls' = [simCalls EXCEPT !.gen = @ + 1]
                        /\ simPc' = "generating"
                        /\ UNCHANGED simResult
    /\ UNCHANGED <<simDoc, scenario, simChunks>>

SimRetrieved ==
    /\ simPc = "embedding"
    /\ \E resp \in EmbedExchanges(Len(simChunks) + 1) : SimRetrievedWith(resp)

\* the generation exchange ends: simulate_impact returns the text or raises
SimAnswer(resp) ==
    /\ simPc = "generating"
    /\ LET r == chat_complete(resp)
       IN  simResult' = IF r.raised THEN SimError(r) ELSE SimText(r.value)
    /\ simPc' = "done"
    /\ UNCHANGED <<simDoc, scenario, simChunks, embedOut, relevant, selectedIdx,
                   simCalls, genContext>>

\* ==== specifications ===================================================

\* analyze_contract
Init == PipeCall /\ ChunkIdle /\ SimIdle /\ SplitIdle

Next ==
    \/ StartGather /\ UNCHANGED <<chunkVars, simVars, splitVars>>
    \/ \E i \in Tasks : TaskCall(i) /\ UNCHANGED <<chunkVars, simVars, splitVars>>
    \/ \E i \in Tasks : \E resp \in ExtractResponses(i) :
           TaskResponse(i, resp) /\ UNCHANGED <<chunkVars, simVars, splitVars>>
    \/ GatherReturn /\ UNCHANGED <<chunkVars, simVars, splitVars>>
    \/ SummaryCall /\ UNCHANGED <<chunkVars, simVars, splitVars>>
    \/ \E resp \in SummaryResponses :
           SummaryResponse(resp) /\ UNCHANGED <<chunkVars, simVars, splitVars>>
    \/ SynthCall /\ UNCHANGED <<chunkVars, simVars, splitVars>>
    \/ \E resp \in SynthResponses :
           SynthResponse(resp) /\ UNCHANGED <<chunkVars, simVars, splitVars>>

Spec == Init /\ [][Next]_vars

\* chunk_text
InitChunk == ChunkCall /\ PipeIdle /\ SimIdle /\ SplitIdle

NextChunk ==
    \/ ChunkShort /\ UNCHANGED <<pipeVars, simVars, splitVars>>
    \/ ChunkParse /\ UNCHANGED <<pipeVars, simVars, splitVars>>
    \/ ChunkSection /\ UNCHANGED <<pipeVars, simVars, splitVars>>
    \/ ChunkFinish /\ UNCHANGED <<pipeVars, simVars, splitVars>>

SpecChunk == InitChunk /\ [][NextChunk]_vars

\* simulate_impact
InitSim == SimCall /\ PipeIdle /\ ChunkIdle /\ SplitIdle

NextSim ==
    \/ SimBlank /\ UNCHANGED <<pipeVars, chunkVars, splitVars>>
    \/ SimEmbedCall /\ UNCHANGED <<pipeVars, chunkVars, splitVars>>
    \/ SimRetrieved /\ UNCHANGED <<pipeVars, chunkVars, splitVars>>
    \/ \E resp \in GenResponses : SimAnswer(resp) /\ UNCHANGED <<pipeVars, chunkVars, splitVars>>

SpecSim == InitSim /\ [][NextSim]_vars

\* _split_large_section: a sequential loop, which keeps stepping while it can
InitSplit == SplitCall /\ PipeIdle /\ ChunkIdle /\ SimIdle

NextSplit ==
    \/ SplitIteration /\ UNCHANGED <<pipeVars, chunkVars, simVars>>
    \/ SplitReturn /\ UNCHANGED <<pipeVars, chunkVars, simVars>>

SpecSplit == InitSplit /\ [][NextSplit]_vars /\ WF_vars(NextSplit)

\* ==== properties of analyze_contract ==================================

\* the exchange failed: the request failed or the status is not 200
ExchangeFailed(resp) == resp.net # "ok" \/ resp.status # 200

\* every extraction task returned
AllTasksDone == \A i \in Tasks : taskPc[i] = "done"

\* <<c, k>> precedes <<d, m>> in chunk-major order
Precedes(f, g) == f[1] < g[1] \/ (f[1] = g[1] /\ f[2] < g[2])

\* the clauses array of the output chunk i received, as the capability wrote it
ReportedClauses(i) ==
    LET o == extractResp[i].content
    IN  IF o.json /\ o.val.t = "dict" /\ "clauses" \in DOMAIN o.val.v
        THEN o.val.v["clauses"] ELSE JList(<<>>)

RECURSIVE ChunkMajorFrom(_)
ChunkMajorFrom(i) ==
    IF i > numChunks THEN <<>> ELSE ReportedClauses(i).v \o ChunkMajorFrom(i + 1)

\* the extraction stage ended with a flattened list
Flattened ==
    /\ pc \notin {"start", "gather"}
    /\ AllTasksDone
    /\ \A i \in Tasks : ReportedClauses(i).t = "list"

\* C1: whatever the order in which the concurrent extraction calls complete,
\* the flattened findings are in chunk-major order: every finding of chunk i
\* precedes every finding of chunk j > i, the findings of one chunk keep their
\* emission order, and slot i of the gathered results holds chunk i's findings.
C1_GatherKeepsChunkOrder ==
    Flattened =>
        /\ \A p, q \in 1..Len(allClauses) : p < q => Precedes(allClauses[p], allClauses[q])
        /\ \A i \in Tasks : chunkResult[i] = ReportedClauses(i)
        /\ \A i \in Tasks : \A k \in 1..Len(ReportedClauses(i).v) :
               \E p \in 1..Len(allClauses) : allClauses[p] = <<i, k>>
        /\ allClauses = ChunkMajorFrom(1)

\* C1 witness: two chunks with findings, the second completed first, and the
\* flattening is done
C1_Witness ==
    /\ Flattened
    /\ numChunks >= 2
    /\ completed[1] = 2
    /\ Len(chunkResult[1].v) >= 1
    /\ Len(chunkResult[2].v) >= 2

\* C4: when every extraction call completed without a transport failure and
\* the flattened findings are empty, analyze_contract has failed with the
\* no-clauses error, which is not the transport error, has returned no report
\* and has issued no summary or synthesis call.
C4_EmptyResultFails ==
    (Flattened /\ ChunkMajorFrom(1) = <<>>) =>
        /\ pc = "failed"
        /\ result.kind = "error"
        /\ result.exc = "RuntimeError"
        /\ result.msg = NoClausesMsg
        /\ result.msg # ChatFailedMsg
        /\ calls.synth = 0
        /\ \A i \in Tasks : calls.summary[i] = 0

\* C4 witness: two chunks answered, one with an empty clauses array and one
\* with an unparseable text, and the pipeline has ended
C4_Witness ==
    /\ Flattened
    /\ numChunks >= 2
    /\ ChunkMajorFrom(1) = <<>>
    /\ extractResp[1].content.json
    /\ ~extractResp[2].content.json
    /\ pc = "failed"

\* the output chunk i received is not JSON, or is JSON without a clauses field
NoClausesField(i) ==
    LET o == extractResp[i].content
    IN  /\ extractResp[i].net = "ok"
        /\ extractResp[i].status = 200
        /\ \/ ~o.json
           \/ o.val.t # "dict"
           \/ "clauses" \notin DOMAIN o.val.v

\* C5: a chunk whose output is unparseable or has no clauses field returns
\* the empty list; once the extraction stage has ended, the flattened list is
\* the findings of the other chunks in order, and when it is non-empty the
\* pipeline has gone on to the summaries: no error came out of extraction
\* (an error raised by the progress callback is not one of extraction).
C5_BadChunkContributesNothing ==
    /\ \A i \in Tasks :
           (taskPc[i] = "done" /\ NoClausesField(i)) => chunkResult[i] = JList(<<>>)
    /\ (Flattened /\ \E i \in Tasks : NoClausesField(i)) =>
           /\ allClauses = ChunkMajorFrom(1)
           /\ allClauses # <<>> =>
                  \/ pc \in {"summaries", "synthesis", "done"}
                  \/ pc = "failed" /\ sumResp # <<>>
                  \/ pc = "failed" /\ result.exc = "CallbackError"

\* C5 witness: chunk 1 answered with text that is not JSON, chunk 2 with two
\* findings, and the summaries stage has begun with those two findings
C5_Witness ==
    /\ numChunks >= 2
    /\ pc = "summaries"
    /\ NoClausesField(1)
    /\ ~extractResp[1].content.json
    /\ allClauses = << <<2, 1>>, <<2, 2>> >>

\* some generation call of this run met a transport failure
TransportFailed ==
    \/ \E i \in Tasks : extractResp[i] # NoResp /\ ExchangeFailed(extractResp[i])
    \/ \E k \in 1..Len(sumResp) : ExchangeFailed(sumResp[k])
    \/ \E k \in 1..Len(synthResp) : ExchangeFailed(synthResp[k])

\* C6: once any generation call has met a transport failure, analyze_contract
\* has ended with that error and no report; and no call is ever issued twice.
C6_TransportFailureTerminal ==
    /\ TransportFailed =>
           /\ pc = "failed"
           /\ result.kind = "error"
           /\ result.msg \in {ChatFailedMsg, "request failed"}
    /\ \A i \in Tasks : calls.extract[i] <= 1 /\ calls.summary[i] <= 1
    /\ calls.synth <= 1
    /\ Len(sumResp) <= numChunks
    /\ Len(synthResp) <= 1

\* C6 witness: chunk 1 returned findings, chunk 2's call failed with a
\* non-200 status, and the run has ended in error
C6_Witness ==
    /\ numChunks >= 2
    /\ taskPc[1] = "done"
    /\ Len(chunkResult[1].v) >= 1
    /\ extractResp[2].status = 500
    /\ pc = "failed"
    /\ result.msg = ChatFailedMsg

\* the synthesis call returned a text that is not JSON
SynthUnparseable ==
    /\ synthResp # <<>>
    /\ ~ExchangeFailed(synthResp[1])
    /\ ~synthResp[1].content.json

\* C7: when the synthesis output cannot be parsed, analyze_contract has failed
\* with the synthesis-parse error and returned no report.
C7_SynthesisParseFailureTerminal ==
    SynthUnparseable =>
        /\ pc = "failed"
        /\ result.kind = "error"
        /\ result.msg = SynthParseMsg
        /\ result.kind # "report"

\* C7 witness: clauses and every chunk summary exist, the synthesis output was
\* a fenced text that is not JSON, and the run has ended
C7_Witness ==
    /\ SynthUnparseable
    /\ synthResp[1].content.fenced
    /\ allClauses # <<>>
    /\ Len(summaries) = numChunks
    /\ pc = "failed"

\* C8: a returned report carries the pipeline's own clauses, which are not
\* empty, and one chunk summary per chunk with chunkIndex 1..numChunks in
\* order, whatever the synthesis output held under those two keys.
C8_ReportShape ==
    result.kind = "report" =>
        /\ result.report["clauses"].v = allClauses
        /\ Len(result.report["clauses"].v) >= 1
        /\ Len(result.report["chunkSummaries"].v) = numChunks
        /\ \A k \in 1..numChunks : result.report["chunkSummaries"].v[k].chunkIndex = k
        /\ \A k \in 1..numChunks :
               result.report["chunkSummaries"].v[k].summary = Strip(sumResp[k].content)

\* C8 witness: a report was returned although the synthesis output carried its
\* own clauses (empty) and chunkSummaries
C8_Witness ==
    /\ result.kind = "report"
    /\ numChunks >= 2
    /\ "clauses" \in DOMAIN synthResp[1].content.val.v
    /\ "chunkSummaries" \in DOMAIN synthResp[1].content.val.v

\* ==== properties of chunk_text ========================================

\* chunk_text went through the parser and the assembler and has returned
ChunkedLong == cpc = "returned" /\ Len(text) > ChunkSize

\* <<section, fragment>> a is not after b in the document
SrcNotAfter(a, b) == a[1] < b[1] \/ (a[1] = b[1] /\ a[2] <= b[2])

\* the content of section k is in the chunk sequence: whole when it fits a
\* chunk, as every fragment of its split when it does not
SectionKept(k) ==
    IF Len(sections[k]) <= ChunkSize
    THEN \E c \in 1..Len(chunks) : Contains(chunks[c], sections[k])
    ELSE LET subs == _split_large_section(sections[k], ChunkSize, Overlap)
         IN  \A j \in 1..Len(subs) : \E c \in 1..Len(chunks) : chunks[c] = subs[j]

\* C2: for a text longer than chunkSize the chunks are lossless and in
\* document order: every section's content is in the chunk sequence, and
\* walking the chunks in output order never goes back to an earlier section
\* or to an earlier fragment of the same section.
C2_DocumentOrder ==
    ChunkedLong =>
        /\ \A k \in 1..Len(sections) : SectionKept(k)
        /\ \A p, q \in 1..Len(chunkSrc) :
               p < q => SrcNotAfter(chunkSrc[p], chunkSrc[q])

\* C3: for a text longer than chunkSize every chunk has at most
\* chunkSize + overlap characters.
C3_ChunkLengthBound ==
    ChunkedLong => \A c \in 1..Len(chunks) : Len(chunks[c]) <= ChunkSize + Overlap

\* ==== properties of simulate_impact ===================================

\* the retriever has returned to simulate_impact
RetrieverReturned == simCalls.embed = 1 /\ simPc \in {"generating", "done"}

\* the embedding call failed, or gave a number of vectors other than
\* numChunks + 1
EmbedDegraded ==
    \/ embedOut.net # "ok"
    \/ embedOut.status # 200
    \/ embedOut.malformed
    \/ Len(embedOut.data) # Len(simChunks) + 1

\* an error that ends simulate_impact comes from its generation call
RetrieveNeverAborts ==
    (simPc = "done" /\ simResult.kind = "error") => simCalls.gen = 1

\* C9 (as stated): when the embedding call fails or gives the wrong number of
\* vectors, the retriever returns the full chunk list in order without
\* raising, and simulate_impact goes on to its generation call with it.
C9_DegradedRetrievalContinues ==
    /\ RetrieveNeverAborts
    /\ (RetrieverReturned /\ EmbedDegraded) =>
           /\ relevant = simChunks
           /\ selectedIdx = [i \in 1..Len(simChunks) |-> i]
           /\ simCalls.gen = 1
           /\ genContext = simChunks

\* C9 (amended): as above, except that with an empty chunk list
\* simulate_impact returns the not-found message and issues no generation
\* call.
C9_DegradedRetrievalContinuesUnlessEmpty ==
    /\ RetrieveNeverAborts
    /\ (RetrieverReturned /\ EmbedDegraded) =>
           /\ relevant = simChunks
           /\ selectedIdx = [i \in 1..Len(simChunks) |-> i]
           /\ simChunks # <<>> => (simCalls.gen = 1 /\ genContext = simChunks)
           /\ simChunks = <<>> =>
                  /\ simCalls.gen = 0
                  /\ simPc = "done"
                  /\ simResult = SimText(NotFoundMsg)

\* C9 witness: the embeddings request failed for a document of three chunks
\* and the generation call has been sent with all three
C9_Witness ==
    /\ RetrieverReturned
    /\ embedOut.net = "error"
    /\ Len(simChunks) = 3
    /\ simPc = "generating"
    /\ genContext = simChunks

\* the embedding call gave one numeric vector per input
GoodEmbedding ==
    /\ ~EmbedDegraded
    /\ \A i \in 1..Len(embedOut.data) : embedOut.data[i].ok

\* the similarity of chunk i (1-based) to the query
ChunkSim(i) ==
    _cosine_similarity(embedOut.data[i].c, embedOut.data[Len(simChunks) + 1].c)

\* chunk i ranks before chunk j: a higher similarity, or the same and a
\* lower index
RanksBefore(i, j) ==
    \/ SimLess(ChunkSim(j), ChunkSim(i))
    \/ SimEq(ChunkSim(i), ChunkSim(j)) /\ i < j

\* C10: with one vector per input the retriever returns min(topK, numChunks)
\* chunk texts, by descending similarity with ties in index order, and they
\* are the highest-ranked chunks.
C10_TopKRanked ==
    (RetrieverReturned /\ GoodEmbedding) =>
        /\ Len(relevant) = Min(TopK, Len(simChunks))
        /\ Len(selectedIdx) = Len(relevant)
        /\ \A k \in 1..Len(relevant) :
               /\ selectedIdx[k] \in 1..Len(simChunks)
               /\ relevant[k] = simChunks[selectedIdx[k]]
        /\ \A k, l \in 1..Len(relevant) :
               k < l => RanksBefore(selectedIdx[k], selectedIdx[l])
        /\ \A j \in 1..Len(simChunks) :
               (\A k \in 1..Len(relevant) : selectedIdx[k] # j) =>
                   \A k \in 1..Len(relevant) : RanksBefore(selectedIdx[k], j)

\* C10 witness: more chunks than topK, a tie between two chunks of the same
\* similarity, and a chunk that ranks first although it is not first in the
\* document
C10_Witness ==
    /\ RetrieverReturned
    /\ GoodEmbedding
    /\ Len(simChunks) > TopK
    /\ selectedIdx[1] = 2
    /\ selectedIdx[2] = 3
    /\ SimEq(ChunkSim(2), ChunkSim(3))
    /\ SimLess(ChunkSim(1), ChunkSim(2))

\* C10 witness of the short case: fewer chunks than topK, all of them returned
C10_WitnessFewChunks ==
    /\ RetrieverReturned
    /\ GoodEmbedding
    /\ Len(simChunks) = 1
    /\ Len(simChunks) < TopK
    /\ relevant = simChunks

\* C11: with an empty or whitespace-only scenario, whatever the document,
\* simulate_impact issues no embedding call and no generation call, chunks
\* nothing, and ends by returning the fixed guidance message.
C11_BlankScenarioShortCircuits ==
    Strip(scenario) = <<>> =>
        /\ simCalls = [embed |-> 0, gen |-> 0]
        /\ simChunks = <<>>
        /\ simPc \in {"start", "done"}
        /\ simPc = "done" => simResult = SimText(GuidanceMsg)

\* C11 witness: a whitespace-only scenario with a document of several
\* chunks, and simulate_impact has returned
C11_Witness ==
    /\ simPc = "done"
    /\ scenario = <<SP, NL>>
    /\ Len(chunk_text(simDoc, ChunkSize, Overlap)) >= 2
    /\ simResult = SimText(GuidanceMsg)
    /\ simCalls.embed = 0

\* ==== more properties of analyze_contract ==============================

\* the slices of the first n summary prompts, one after the other
RECURSIVE SlicesJoined(_)
SlicesJoined(n) == IF n = 0 THEN <<>> ELSE SlicesJoined(n - 1) \o sumCtx[n]

\* ceil(total / n) as the least integer that n times covers total
CeilDiv(total, n) == CHOOSE q \in 0..total : q * n >= total /\ (q = 0 \/ (q - 1) * n < total)

\* C12: the summary prompt of chunk i (0-based) holds exactly the findings at
\* positions [i*perChunk, min((i+1)*perChunk, total)) with perChunk =
\* ceil(total / numChunks); the slices follow one another without gap or
\* overlap, and once every chunk has its prompt they contain every finding
\* exactly once, in order (a later slice may be empty).
C12_FindingsPartitioned ==
    LET total == Len(allClauses)
        perChunk == CeilDiv(total, numChunks)
    IN  sumCtx # <<>> =>
            /\ \A j \in 1..Len(sumCtx) :
                   LET lo == (j - 1) * perChunk
                       hi == Min(j * perChunk, total)
                   IN  /\ Len(sumCtx[j]) = Max(0, hi - lo)
                       /\ \A k \in 1..Len(sumCtx[j]) : sumCtx[j][k] = allClauses[lo + k]
            /\ SlicesJoined(Len(sumCtx)) = SubSeq(allClauses, 1, Len(SlicesJoined(Len(sumCtx))))
            /\ Len(sumCtx) = numChunks =>
                   /\ SlicesJoined(numChunks) = allClauses
                   /\ \A f \in {allClauses[p] : p \in 1..total} :
                          Cardinality({<<j, k>> \in (1..numChunks) \X (1..total) :
                                         k <= Len(sumCtx[j]) /\ sumCtx[j][k] = f}) = 1

\* C12 witness: three findings over two chunks, an uneven split, and both
\* summary prompts are built
C12_Witness ==
    /\ numChunks = 2
    /\ Len(allClauses) = 3
    /\ Len(sumCtx) = 2
    /\ Len(sumCtx[1]) = 2
    /\ Len(sumCtx[2]) = 1

\* C12 witness of the empty slice: one finding over two chunks
C12_WitnessEmptySlice ==
    /\ numChunks = 2
    /\ Len(allClauses) = 1
    /\ Len(sumCtx) = 2
    /\ sumCtx[2] = <<>>

\* ==== more properties of chunk_text ===================================

\* C13: for a text of at most chunk_size characters (the empty text and a
\* text of exactly chunk_size characters included) chunk_text returns the
\* one-element list holding the text unchanged, and neither the section
\* parser nor the assembling loop runs.
C13_ShortTextOneChunk ==
    Len(text) <= ChunkSize =>
        /\ cpc \in {"call", "returned"}
        /\ sections = <<>>
        /\ secIdx = 0
        /\ current = <<>>
        /\ cpc = "returned" => chunks = <<text>>
        /\ chunk_text(text, ChunkSize, Overlap) = <<text>>

\* C13 witness: a text of exactly chunk_size characters that the parser
\* would have normalised, returned as it is
C13_Witness ==
    /\ cpc = "returned"
    /\ Len(text) = ChunkSize
    /\ _parse_with_regex(text) # <<text>>
    /\ chunks = <<text>>

\* C13 witness of the empty text
C13_WitnessEmpty ==
    /\ cpc = "returned"
    /\ text = <<>>
    /\ chunks = << <<>> >>

\* ==== the progress callback ==========================================

\* the last element of a non-empty list
Last(q) == q[Len(q)]

\* the ways analyze_contract fails without a callback: a raising extraction
\* call, the flattening or the no-clauses check, a raising summary call, a
\* raising synthesis call or an unusable synthesis output
FailureFromResponses ==
    \/ \E i \in Tasks : taskPc[i] = "raised"
    \/ /\ AllTasksDone
       /\ LET flat == ExtendAll(<<>>, gather(chunkResult, completed))
          IN  flat.raised \/ CheckNotEmpty(flat.value).raised
    \/ sumResp # <<>> /\ chat_complete(Last(sumResp)).raised
    \/ /\ synthResp # <<>>
       /\ LET r == chat_complete(Last(synthResp))
          IN  r.raised \/ _synthesize_report(r.value).raised

\* C15 (as stated): the callback is a side channel.  Whatever callback is
\* supplied, analyze_contract fails only where it fails without one, on
\* what the capability calls answered, and never with an error of the
\* callback; so calls and outcome are those of the run without a callback.
C15_CallbackIsSideChannel ==
    pc = "failed" =>
        /\ FailureFromResponses
        /\ result.exc # "CallbackError"

\* the same, for the runs without a callback or with one that returns
C15_ReturningCallbackIsSideChannel ==
    on_progress.raisesAt = 0 => C15_CallbackIsSideChannel

\* ==== the order of the stages ========================================

NoSummaryOrSynthesisCall ==
    /\ calls.synth = 0
    /\ \A i \in Tasks : calls.summary[i] = 0

\* C17: a summary call or the synthesis call is issued only after every
\* chunk's extraction call has completed; the summary calls are issued one at
\* a time in chunk order, each after the one before it has completed; the
\* synthesis call is issued only after every summary call has completed; and
\* when an extraction call fails, or extraction yields no finding, no
\* summary call and no synthesis call is issued at all.
C17_StagesOrdered ==
    /\ ~NoSummaryOrSynthesisCall =>
           /\ AllTasksDone
           /\ \A i \in Tasks : extractResp[i] # NoResp /\ calls.extract[i] = 1
           /\ Len(completed) = numChunks
    /\ \A i \in Tasks :
           calls.summary[i] > 0 =>
               /\ calls.summary[i] = 1
               /\ \A j \in 1..(i - 1) : calls.summary[j] = 1
               /\ Len(sumResp) >= i - 1
               /\ Len(summaries) >= i - 1
    /\ calls.synth > 0 =>
           /\ calls.synth = 1
           /\ \A i \in Tasks : calls.summary[i] = 1
           /\ Len(sumResp) = numChunks
           /\ Len(summaries) = numChunks
           /\ \A k \in 1..numChunks : ~ExchangeFailed(sumResp[k])
    /\ (\E i \in Tasks : taskPc[i] = "raised") => NoSummaryOrSynthesisCall
    /\ (pc \notin {"start", "gather"} /\ allClauses = <<>>) =>
           NoSummaryOrSynthesisCall

\* C17 witness: two chunks, the second extraction completed first, both
\* summary calls and then the synthesis call were issued, and the report is
\* returned
C17_Witness ==
    /\ pc = "done"
    /\ numChunks = 2
    /\ completed = <<2, 1>>
    /\ calls.summary = <<1, 1>>
    /\ calls.synth = 1
    /\ result.kind = "report"

\* C17 witness of the failing extraction: chunk 2 failed while chunk 1 had
\* answered with findings, and the other call ran on
C17_WitnessExtractionFails ==
    /\ pc = "failed"
    /\ numChunks = 2
    /\ taskPc = <<"done", "raised">>
    /\ Len(chunkResult[1].v) >= 1
    /\ NoSummaryOrSynthesisCall

\* ==== properties of _split_large_section ==============================

\* break points in order of preference: paragraph break, line break,
\* sentence end, comma
BreakKinds == << <<NL, NL>>, <<NL>>, <<".", SP>>, <<",", SP>> >>

\* the 0-based positions of area where pat occurs
Occurrences(area, pat) ==
    {p \in 0..(Len(area) - Len(pat)) : SubSeq(area, p + 1, p + Len(pat)) = pat}

\* the most preferred kind of break that occurs in area; 0 when none does
Preferred(area) ==
    IF \A k \in 1..4 : Occurrences(area, BreakKinds[k]) = {} THEN 0
    ELSE CHOOSE k \in 1..4 :
            /\ Occurrences(area, BreakKinds[k]) # {}
            /\ \A j \in 1..(k - 1) : Occurrences(area, BreakKinds[j]) = {}

\* the window searched around the boundary of the fragment that starts at st
Window(st) ==
    Slice(section, st + splitSize - splitOverlap, st + splitSize + splitOverlap)

\* C14 (as stated): at every chunk_size boundary inside the section the cut
\* is at a break point of the most preferred kind found in the window of
\* overlap characters before and after the boundary (paragraph break, then
\* line break, then sentence end, then comma), and at exactly chunk_size
\* from the fragment start when the window holds no break point.
C14_CutAtPreferredBreak ==
    \A k \in 1..Len(iters) :
        LET st == iters[k][1]
            cut == iters[k][2]
            best == Preferred(Window(st))
        IN  st + splitSize < Len(section) =>
                IF best = 0 THEN cut = st + splitSize
                ELSE cut - (st + splitSize - splitOverlap)
                         \in Occurrences(Window(st), BreakKinds[best])

\* the start that followed iteration k
StartAfter(k) == IF k < Len(iters) THEN iters[k + 1][1] ELSE splitStart

\* every iteration so far moved start forward by at least
\* chunk_size - 2 * overlap, which bounds the number of iterations
Advances ==
    /\ splitSize - 2 * splitOverlap > 0
    /\ \A k \in 1..Len(iters) :
           /\ iters[k][1] < Len(section)
           /\ StartAfter(k) >= iters[k][1] + splitSize - 2 * splitOverlap
    /\ (Len(iters) - 1) * (splitSize - 2 * splitOverlap) < Len(section)
    /\ Len(splitChunks) <= Len(iters)

\* C16: for chunk_size > 2 * overlap >= 0 every iteration moves start
\* forward by at least chunk_size - 2 * overlap > 0 characters, also when the
\* break chosen is the first position of the window, and the loop ends:
\* _split_large_section returns after finitely many fragments.
C16_SplitTerminates == [](Advances) /\ <>(splitPc = "returned")

\* C16 witness: an iteration cut at the first position of its window, so
\* that start moved by exactly chunk_size - 2 * overlap, and the function
\* has returned
C16_Witness ==
    /\ splitPc = "returned"
    /\ splitOverlap > 0
    /\ \E k \in 1..Len(iters) :
           /\ iters[k][1] + splitSize < Len(section)
           /\ iters[k][2] = iters[k][1] + splitSize - splitOverlap
           /\ StartAfter(k) = iters[k][1] + splitSize - 2 * splitOverlap

====
